---- MODULE Spec2Model ----
(***************************************************************************)
(* Model of SquidGameNode (robot_control_architecture_node.py): the        *)
(* "Red Light, Green Light" state machine, its 0.1 s timer callback        *)
(* main_loop and its subscription callback detection_callback.             *)
(*                                                                         *)
(* rclpy.spin runs the node on the default single-threaded executor, so a  *)
(* callback runs to completion before the next one starts: each callback   *)
(* is one atomic action.  The clock (get_clock().now()) advances between   *)
(* callbacks (AdvanceClock) and, inside a callback, between two readings   *)
(* of it (the lag drawn in init_state and in the light ticks).  Blocking   *)
(* feedback (espeak, mpg123, the rotation) touches no field of the node:   *)
(* the time it takes is clock advance after the callback.                  *)
(***************************************************************************)
EXTENDS Integers, Sequences, FiniteSets, TLC

VARIABLES
    state,                      \* self.state
    time_limit,                 \* self.time_limit
    movement_threshold,         \* self.movement_threshold
    elapsed_time,               \* self.elapsed_time
    game_start_time,            \* self.game_start_time
    current_light_duration,     \* self.current_light_duration
    light_end_time,             \* self.light_end_time
    player_reached_finish_line, \* self.player_reached_finish_line
    player_moved,               \* self.player_moved
    previous_detection,         \* self.previous_detection
    current_detection,          \* self.current_detection
    game_result,                \* self.game_result ("UNSET": attribute not created yet)
    timer_active,               \* self.timer has not been cancelled
    now,                        \* the reading of self.get_clock().now()
    pubs,                       \* messages the latest step published on game_state
    scheduled_from,             \* self.state when the latest step called
                                \* start_random_light ("" when it did not)
    result_writes,              \* history: number of assignments to self.game_result
    seen_since_red              \* history: a person detection was processed since the
                                \* latest start_red_light (or since construction)

vars == <<state, time_limit, movement_threshold, elapsed_time, game_start_time,
          current_light_duration, light_end_time, player_reached_finish_line,
          player_moved, previous_detection, current_detection, game_result,
          timer_active, now, pubs, scheduled_from, result_writes,
          seen_since_red>>

config == <<time_limit, movement_threshold>>

-----------------------------------------------------------------------------
(* Time.  Clock readings and durations are integers counting units of      *)
(* TenthsPerUnit tenths of a second.                                       *)

TenthsPerUnit == 4

Tenths(t) == t \div TenthsPerUnit

\* self.time_limit = 120.0
time_limit_default == Tenths(1200)

\* self.random_interval_min = 0.8, self.random_interval_max = 1.2
random_interval_min == Tenths(8)

random_interval_max == Tenths(12)

\* time.sleep(0.5) after each of the 8 instructions (line 88) and the rotation of
\* math.pi / self.rotation_speed seconds (line 206): the least time
\* instructions_state blocks for.
instructions_duration == Tenths(8 * 5 + 31)

\* time.sleep(1) after each of the 3 counts (line 99).
countdown_duration == Tenths(3 * 10)

\* A time limit of 6.0 s, for the runs that vary the detections.
time_limit_short == Tenths(60)

\* self.movement_threshold = 10.0
movement_threshold_default == 10

\* self.size_y_finish_line = 400.0
size_y_finish_line == 400

\* Python's None, for the two timestamps (clock readings are never negative).
None == 0 - 1

\* Python's None, for the two detection fields.
NoDetection == [none |-> TRUE]

\* The clock reads at most MaxPreGame when the first tick runs.
MaxPreGame == 0

\* Once the game has started, the clock advances at most MaxTickGap units
\* beyond its reading at the latest tick.
MaxTickGap == 1

\* Two clock readings inside one callback differ by at most MaxLag.
MaxLag == 1

States == {"INSTRUCTIONS", "COUNTDOWN", "INIT", "GREEN_LIGHT", "RED_LIGHT", "GAME_OVER"}

-----------------------------------------------------------------------------
(* Detections: vision_msgs Detection2D, reduced to the fields the node     *)
(* reads: results[i].hypothesis.class_id and bbox.                         *)

Box(x, y, sx, sy) == [x |-> x, y |-> y, size_x |-> sx, size_y |-> sy]

Person(b) == [results |-> <<"15">>, bbox |-> b]

Other(b) == [results |-> <<"1">>, bbox |-> b]

Abs(n) == IF n < 0 THEN 0 - n ELSE n

\* Lines 262-265 of detect_movement: the four absolute deltas.
deltas(prev_det, curr_det) ==
    LET prev_bbox == prev_det.bbox
        curr_bbox == curr_det.bbox
    IN  [delta_x |-> Abs(curr_bbox.x - prev_bbox.x),
         delta_y |-> Abs(curr_bbox.y - prev_bbox.y),
         delta_size_x |-> Abs(curr_bbox.size_x - prev_bbox.size_x),
         delta_size_y |-> Abs(curr_bbox.size_y - prev_bbox.size_y)]

\* Mutant: the comparison is >= instead of >.
detect_movement_ge(prev_det, curr_det, threshold) ==
    LET d == deltas(prev_det, curr_det)
    IN  \/ d.delta_x >= threshold
        \/ d.delta_y >= threshold
        \/ d.delta_size_x >= threshold
        \/ d.delta_size_y >= threshold

\* detect_movement (lines 258-277): any delta strictly above the threshold.
detect_movement(prev_det, curr_det, threshold) ==
    LET d == deltas(prev_det, curr_det)
    IN  \/ d.delta_x > threshold
        \/ d.delta_y > threshold
        \/ d.delta_size_x > threshold
        \/ d.delta_size_y > threshold

\* The inner loop of detection_callback (lines 234-241) over det.results,
\* from index i, on the locals acc = (person_detected, max_size_y, detection).
RECURSIVE scan_results(_, _, _)
scan_results(det, i, acc) ==
    IF i > Len(det.results) THEN acc
    ELSE scan_results(det, i + 1,
            IF det.results[i] = "15" /\ det.bbox.size_y > acc.max_size_y
            THEN [person_detected |-> TRUE, detection |-> det,
                  max_size_y |-> det.bbox.size_y]
            ELSE acc)

\* The outer loop (line 233) over msg.detections, from index i.
RECURSIVE scan_detections(_, _, _)
scan_detections(msg, i, acc) ==
    IF i > Len(msg) THEN acc
    ELSE scan_detections(msg, i + 1, scan_results(msg[i], 1, acc))

\* Lines 229-241: the locals after the loops.
select_person(msg) ==
    scan_detections(msg, 1,
        [person_detected |-> FALSE, max_size_y |-> 0, detection |-> NoDetection])

\* Mutant: the flag is assigned the outcome of the comparison.
finish_flag_assigned(detection, old) ==
    detection.bbox.size_y >= size_y_finish_line

\* Lines 245-246: the finish-line flag after a selected detection.
finish_flag(detection, old) ==
    IF detection.bbox.size_y >= size_y_finish_line THEN TRUE ELSE old

\* Mutant: the flag is assigned the outcome of the comparison.
moved_flag_assigned(st, prev, curr, threshold, old) ==
    IF st = "RED_LIGHT" /\ prev # NoDetection
    THEN detect_movement(prev, curr, threshold)
    ELSE old

\* Mutant: the comparison runs in every phase.
moved_flag_any_phase(st, prev, curr, threshold, old) ==
    IF prev # NoDetection /\ detect_movement(prev, curr, threshold)
    THEN TRUE
    ELSE old

\* Lines 248-254: the movement flag after a selected detection.
moved_flag(st, prev, curr, threshold, old) ==
    IF st = "RED_LIGHT" /\ prev # NoDetection /\ detect_movement(prev, curr, threshold)
    THEN TRUE
    ELSE old

\* What detection_callback leaves alone.
detection_frame ==
    /\ pubs' = <<>>
    /\ scheduled_from' = ""
    /\ UNCHANGED <<state, elapsed_time, game_start_time, current_light_duration,
                   light_end_time, game_result, timer_active, now, result_writes,
                   config>>

\* Mutant: a frame without a person clears the stored detections.
detection_callback_target_lost(msg) ==
    LET sel == select_person(msg) IN
    /\ IF sel.person_detected
       THEN /\ current_detection' = sel.detection
            /\ player_reached_finish_line' =
                   finish_flag(sel.detection, player_reached_finish_line)
            /\ player_moved' = moved_flag(state, previous_detection, sel.detection,
                                          movement_threshold, player_moved)
            /\ previous_detection' = sel.detection
            /\ seen_since_red' = TRUE
       ELSE /\ current_detection' = NoDetection
            /\ previous_detection' = NoDetection
            /\ UNCHANGED <<player_reached_finish_line, player_moved, seen_since_red>>
    /\ detection_frame

\* Mutant: line 256 runs whether or not a person was detected.
detection_callback_baseline_always(msg) ==
    LET sel == select_person(msg) IN
    /\ IF sel.person_detected
       THEN /\ current_detection' = sel.detection
            /\ player_reached_finish_line' =
                   finish_flag(sel.detection, player_reached_finish_line)
            /\ player_moved' = moved_flag(state, previous_detection, sel.detection,
                                          movement_threshold, player_moved)
            /\ seen_since_red' = TRUE
       ELSE UNCHANGED <<current_detection, player_reached_finish_line, player_moved,
                        seen_since_red>>
    /\ previous_detection' = current_detection'
    /\ detection_frame

\* detection_callback (lines 228-256) on the frame msg.
detection_callback(msg) ==
    LET sel == select_person(msg) IN
    /\ IF sel.person_detected
       THEN /\ current_detection' = sel.detection
            /\ player_reached_finish_line' =
                   finish_flag(sel.detection, player_reached_finish_line)
            /\ player_moved' = moved_flag(state, previous_detection, sel.detection,
                                          movement_threshold, player_moved)
            /\ previous_detection' = sel.detection
            /\ seen_since_red' = TRUE
       ELSE UNCHANGED <<current_detection, player_reached_finish_line, player_moved,
                        previous_detection, seen_since_red>>
    /\ detection_frame

-----------------------------------------------------------------------------
(* The light scheduler.  t is the reading of get_clock().now() inside      *)
(* start_green_light / start_red_light.                                    *)

\* Mutant: the publication (line 144) is missing.
start_green_light_silent(t) ==
    /\ state' = "GREEN_LIGHT"
    /\ \E d \in random_interval_min..random_interval_max :
          /\ current_light_duration' = d
          /\ light_end_time' = t + d
    /\ now' = t
    /\ pubs' = <<>>
    /\ UNCHANGED <<previous_detection, player_moved, seen_since_red>>

\* start_green_light (lines 133-144).
start_green_light(t) ==
    /\ state' = "GREEN_LIGHT"
    /\ \E d \in random_interval_min..random_interval_max :
          /\ current_light_duration' = d
          /\ light_end_time' = t + d
    /\ now' = t
    /\ pubs' = <<"GREEN_LIGHT">>
    /\ UNCHANGED <<previous_detection, player_moved, seen_since_red>>

\* Mutant: the baseline is reset to the latest detection instead of None.
start_red_light_baseline_current(t) ==
    /\ state' = "RED_LIGHT"
    /\ \E d \in random_interval_min..random_interval_max :
          /\ current_light_duration' = d
          /\ light_end_time' = t + d
    /\ now' = t
    /\ previous_detection' = current_detection
    /\ player_moved' = FALSE
    /\ seen_since_red' = FALSE
    /\ pubs' = <<"RED_LIGHT">>

\* Mutant: lines 178-179 are missing.
start_red_light_keep(t) ==
    /\ state' = "RED_LIGHT"
    /\ \E d \in random_interval_min..random_interval_max :
          /\ current_light_duration' = d
          /\ light_end_time' = t + d
    /\ now' = t
    /\ seen_since_red' = FALSE
    /\ pubs' = <<"RED_LIGHT">>
    /\ UNCHANGED <<previous_detection, player_moved>>

\* start_red_light (lines 167-180).
start_red_light(t) ==
    /\ state' = "RED_LIGHT"
    /\ \E d \in random_interval_min..random_interval_max :
          /\ current_light_duration' = d
          /\ light_end_time' = t + d
    /\ now' = t
    /\ previous_detection' = NoDetection
    /\ player_moved' = FALSE
    /\ seen_since_red' = FALSE
    /\ pubs' = <<"RED_LIGHT">>

\* Mutant: the light after GREEN_LIGHT is drawn at random too.
start_random_light_any(t) ==
    /\ scheduled_from' = state
    /\ \E choice \in BOOLEAN :
          IF choice THEN start_green_light(t) ELSE start_red_light(t)

\* start_random_light (lines 111-131); random.choice is the \E.
start_random_light(t) ==
    /\ scheduled_from' = state
    /\ IF state = "GREEN_LIGHT"
       THEN start_red_light(t)
       ELSE IF state = "RED_LIGHT"
       THEN \E choice \in BOOLEAN :
               IF choice THEN start_green_light(t) ELSE start_red_light(t)
       ELSE \E choice \in BOOLEAN :
               IF choice THEN start_green_light(t) ELSE start_red_light(t)

-----------------------------------------------------------------------------
(* The phase handlers main_loop dispatches to.                             *)

\* instructions_state (lines 73-93).
instructions_state ==
    /\ state = "INSTRUCTIONS"
    /\ now' = now + instructions_duration
    /\ state' = "COUNTDOWN"
    /\ pubs' = <<>>
    /\ scheduled_from' = ""
    /\ UNCHANGED <<elapsed_time, game_start_time, current_light_duration,
                   light_end_time, player_reached_finish_line, player_moved,
                   previous_detection, current_detection, game_result, timer_active,
                   result_writes, seen_since_red, config>>

\* countdown_state (lines 95-103).
countdown_state ==
    /\ state = "COUNTDOWN"
    /\ now' = now + countdown_duration
    /\ state' = "INIT"
    /\ pubs' = <<>>
    /\ scheduled_from' = ""
    /\ UNCHANGED <<elapsed_time, game_start_time, current_light_duration,
                   light_end_time, player_reached_finish_line, player_moved,
                   previous_detection, current_detection, game_result, timer_active,
                   result_writes, seen_since_red, config>>

\* init_state (lines 105-109).
init_state ==
    /\ state = "INIT"
    /\ game_start_time' = now
    /\ elapsed_time' = 0
    /\ \E lag \in 0..MaxLag : start_random_light(now + lag)
    /\ UNCHANGED <<player_reached_finish_line, current_detection, game_result,
                   timer_active, result_writes, config>>

\* The returns into GAME_OVER of the light handlers
\* (lines 153-155, 160-162, 189-191, 198-200).
end_game(result) ==
    /\ state' = "GAME_OVER"
    /\ game_result' = result
    /\ result_writes' = result_writes + 1
    /\ pubs' = <<>>
    /\ scheduled_from' = ""
    /\ UNCHANGED <<game_start_time, current_light_duration, light_end_time,
                   player_reached_finish_line, player_moved, previous_detection,
                   current_detection, timer_active, now, seen_since_red, config>>

\* A light tick that neither ends the game nor reaches the deadline.
stay ==
    /\ pubs' = <<>>
    /\ scheduled_from' = ""
    /\ UNCHANGED <<state, game_start_time, current_light_duration, light_end_time,
                   player_reached_finish_line, player_moved, previous_detection,
                   current_detection, game_result, timer_active, now, result_writes,
                   seen_since_red, config>>

\* The deadline branch of the light handlers (lines 164-165, 202-203).
next_light ==
    /\ \E lag \in 0..MaxLag : start_random_light(now + lag)
    /\ UNCHANGED <<game_start_time, player_reached_finish_line, current_detection,
                   game_result, timer_active, result_writes, config>>

\* Mutant: the elapsed time is advanced by one unit per tick.
green_light_state_tick_count ==
    /\ state = "GREEN_LIGHT"
    /\ elapsed_time' = elapsed_time + 1
    /\ IF elapsed_time' >= time_limit THEN end_game("LOSE")
       ELSE IF player_reached_finish_line THEN end_game("WIN")
       ELSE IF now >= light_end_time THEN next_light
       ELSE stay

\* Mutant: the finish line is checked before the time limit.
green_light_state_finish_first ==
    /\ state = "GREEN_LIGHT"
    /\ elapsed_time' = now - game_start_time
    /\ IF player_reached_finish_line THEN end_game("WIN")
       ELSE IF elapsed_time' >= time_limit THEN end_game("LOSE")
       ELSE IF now >= light_end_time THEN next_light
       ELSE stay

\* Mutant: the light deadline is checked before the finish line.
green_light_state_deadline_first ==
    /\ state = "GREEN_LIGHT"
    /\ elapsed_time' = now - game_start_time
    /\ IF elapsed_time' >= time_limit THEN end_game("LOSE")
       ELSE IF now >= light_end_time THEN next_light
       ELSE IF player_reached_finish_line THEN end_game("WIN")
       ELSE stay

\* green_light_state (lines 146-165).
green_light_state ==
    /\ state = "GREEN_LIGHT"
    /\ elapsed_time' = now - game_start_time
    /\ IF elapsed_time' >= time_limit THEN end_game("LOSE")
       ELSE IF player_reached_finish_line THEN end_game("WIN")
       ELSE IF now >= light_end_time THEN next_light
       ELSE stay

\* Mutant: the time-limit test (lines 186-191) is missing.
red_light_state_no_time_limit ==
    /\ state = "RED_LIGHT"
    /\ elapsed_time' = now - game_start_time
    /\ IF player_moved THEN end_game("LOSE")
       ELSE IF now >= light_end_time THEN next_light
       ELSE stay

\* Mutant: the deadline test compares the elapsed game time with the duration.
red_light_state_elapsed_deadline ==
    /\ state = "RED_LIGHT"
    /\ elapsed_time' = now - game_start_time
    /\ IF elapsed_time' >= time_limit THEN end_game("LOSE")
       ELSE IF player_moved THEN end_game("LOSE")
       ELSE IF elapsed_time' >= current_light_duration THEN next_light
       ELSE stay

\* Mutant: the red handler also ends the game on the finish-line flag.
red_light_state_win ==
    /\ state = "RED_LIGHT"
    /\ elapsed_time' = now - game_start_time
    /\ IF elapsed_time' >= time_limit THEN end_game("LOSE")
       ELSE IF player_moved THEN end_game("LOSE")
       ELSE IF player_reached_finish_line THEN end_game("WIN")
       ELSE IF now >= light_end_time THEN next_light
       ELSE stay

\* red_light_state (lines 182-203).
red_light_state ==
    /\ state = "RED_LIGHT"
    /\ elapsed_time' = now - game_start_time
    /\ IF elapsed_time' >= time_limit THEN end_game("LOSE")
       ELSE IF player_moved THEN end_game("LOSE")
       ELSE IF now >= light_end_time THEN next_light
       ELSE stay

\* What game_over_state leaves alone.
game_over_frame ==
    /\ scheduled_from' = ""
    /\ UNCHANGED <<elapsed_time, game_start_time, current_light_duration,
                   light_end_time, player_reached_finish_line, player_moved,
                   previous_detection, current_detection, now, seen_since_red,
                   config>>

\* Mutant: the timer is not cancelled (line 226 is missing).
game_over_state_no_cancel ==
    /\ state = "GAME_OVER"
    /\ pubs' = <<"GAME_OVER">>
    /\ UNCHANGED <<state, timer_active, game_result, result_writes>>
    /\ game_over_frame

\* Mutant: the handler starts the next game instead of stopping the timer.
game_over_state_restart ==
    /\ state = "GAME_OVER"
    /\ pubs' = <<"GAME_OVER">>
    /\ state' = "INSTRUCTIONS"
    /\ UNCHANGED <<timer_active, game_result, result_writes>>
    /\ game_over_frame

\* Mutant: the handler normalises the result before logging it.
game_over_state_rewrite ==
    /\ state = "GAME_OVER"
    /\ pubs' = <<"GAME_OVER">>
    /\ timer_active' = FALSE
    /\ game_result' = (IF game_result = "WIN" THEN "WIN" ELSE "LOSE")
    /\ result_writes' = result_writes + 1
    /\ UNCHANGED state
    /\ game_over_frame

\* game_over_state (lines 220-226).
game_over_state ==
    /\ state = "GAME_OVER"
    /\ pubs' = <<"GAME_OVER">>
    /\ timer_active' = FALSE
    /\ UNCHANGED <<state, game_result, result_writes>>
    /\ game_over_frame

\* main_loop (lines 57-71), the timer callback; the timer fires until cancelled.
\* state is always one of the six names, so the final else is never taken.
main_loop ==
    /\ timer_active
    /\ \/ instructions_state
       \/ countdown_state
       \/ init_state
       \/ green_light_state
       \/ red_light_state
       \/ game_over_state

-----------------------------------------------------------------------------
(* Inputs and the clock.                                                   *)

\* Bounding boxes of the frames the detector delivers.
base == Box(100, 100, 50, 80)

grown == Box(100, 100, 50, 95)

finish == Box(100, 100, 50, 450)

Frames ==
    { <<>>, <<Other(finish)>>, <<Person(base)>>, <<Person(grown)>>, <<Person(finish)>>,
      <<Person(base), Person(grown)>> }

\* Boxes that differ from base in one coordinate, by the default threshold and by
\* one more.
WideBoxes ==
    {base} \cup
    UNION { { Box(100 + d, 100, 50, 80), Box(100, 100 + d, 50, 80),
              Box(100, 100, 50 + d, 80), Box(100, 100, 50, 80 + d) } :
            d \in {movement_threshold_default, movement_threshold_default + 1} }

WideFrames == { <<>> } \cup { <<Person(b)>> : b \in WideBoxes }

\* Detections for the selection: two persons of equal height at different
\* places, a shorter one, one of height zero, a detection with two hypotheses
\* of which the second is the person, and one that is no person.
beside == Box(200, 100, 50, 95)

flat == Box(100, 100, 50, 0)

SelDetections ==
    { Person(base), Person(grown), Person(beside), Person(flat), Other(finish),
      [results |-> <<"1", "15">>, bbox |-> finish] }

\* The frames of at most two of them.
SelFrames ==
    { <<>> } \cup { <<a>> : a \in SelDetections }
             \cup { <<a, b>> : a \in SelDetections, b \in SelDetections }

Thresholds == {0, 1, movement_threshold_default}

\* A frame arrives on /color/mobilenet_detections.
Detection == \E msg \in Frames : detection_callback(msg)

DetectionWide == \E msg \in WideFrames : detection_callback(msg)

DetectionSel == \E msg \in SelFrames : detection_callback(msg)

\* The clock advances by one unit between callbacks.
AdvanceClock ==
    /\ IF game_start_time = None
       THEN now < MaxPreGame
       ELSE now < game_start_time + elapsed_time + MaxTickGap
    /\ now' = now + 1
    /\ pubs' = <<>>
    /\ scheduled_from' = ""
    /\ UNCHANGED <<state, elapsed_time, game_start_time, current_light_duration,
                   light_end_time, player_reached_finish_line, player_moved,
                   previous_detection, current_detection, game_result, timer_active,
                   result_writes, seen_since_red, config>>

\* __init__ (lines 16-48), with the two tunables the runs vary.
InitWith(limit, threshold) ==
    /\ state = "INSTRUCTIONS"
    /\ time_limit = limit
    /\ movement_threshold = threshold
    /\ elapsed_time = 0
    /\ game_start_time = None
    /\ current_light_duration = 0
    /\ light_end_time = None
    /\ player_reached_finish_line = FALSE
    /\ player_moved = FALSE
    /\ previous_detection = NoDetection
    /\ current_detection = NoDetection
    /\ game_result = "UNSET"
    /\ timer_active = TRUE
    /\ now = 0
    /\ pubs = <<>>
    /\ scheduled_from = ""
    /\ result_writes = 0
    /\ seen_since_red = FALSE

Init == InitWith(time_limit_default, movement_threshold_default)

Next == main_loop \/ Detection \/ AdvanceClock

Spec == Init /\ [][Next]_vars

\* The timer keeps firing main_loop while it is not cancelled (create_timer,
\* line 47) and the clock keeps advancing.
SpecFair == Spec /\ WF_vars(main_loop) /\ WF_vars(AdvanceClock)

\* The node with a short time limit and any of the thresholds, fed the wide frames.
InitDet == \E threshold \in Thresholds : InitWith(time_limit_short, threshold)

NextDet == main_loop \/ DetectionWide \/ AdvanceClock

SpecDet == InitDet /\ [][NextDet]_vars

\* The node with a short time limit, fed the selection frames.
InitSel == InitWith(time_limit_short, movement_threshold_default)

NextSel == main_loop \/ DetectionSel \/ AdvanceClock

SpecSel == InitSel /\ [][NextSel]_vars

TypeOK ==
    /\ state \in States
    /\ game_result \in {"UNSET", "WIN", "LOSE"}
    /\ timer_active \in BOOLEAN
    /\ player_moved \in BOOLEAN
    /\ player_reached_finish_line \in BOOLEAN
    /\ now \in Nat
    /\ elapsed_time \in Nat

-----------------------------------------------------------------------------
(* Properties.                                                             *)

LightStates == {"GREEN_LIGHT", "RED_LIGHT"}

\* A step that enters RED_LIGHT: start_red_light ran (from INIT, GREEN_LIGHT or
\* RED_LIGHT); every entry sets a new light deadline.
RedEntry == main_loop /\ state' = "RED_LIGHT" /\ light_end_time' # light_end_time

\* C1: GAME_OVER is terminal: no step (tick, detection callback or clock advance)
\* taken in GAME_OVER leads to another phase.
C1_GameOverTerminal == [][state = "GAME_OVER" => state' = "GAME_OVER"]_vars

\* The final tick has run in GAME_OVER and the phase is still GAME_OVER.
C1_Witness == state = "GAME_OVER" /\ ~timer_active /\ pubs = <<"GAME_OVER">>

\* C2: a tick in GREEN_LIGHT that calls start_random_light (it sets a new light
\* deadline) ends in RED_LIGHT; no step goes from GREEN_LIGHT into a new
\* GREEN_LIGHT phase.
C2_GreenThenRed ==
    [][ /\ (scheduled_from' = "GREEN_LIGHT" => state' = "RED_LIGHT")
        /\ (state = "GREEN_LIGHT" /\ light_end_time' # light_end_time
                => state' = "RED_LIGHT" /\ scheduled_from' = "GREEN_LIGHT") ]_vars

\* start_random_light has just run from GREEN_LIGHT.
C2_Witness == scheduled_from = "GREEN_LIGHT" /\ state = "RED_LIGHT"

\* C3: a tick in GREEN_LIGHT or RED_LIGHT at which the elapsed time is at or
\* above the time limit ends in GAME_OVER with result LOSE, whatever the flags
\* and the light deadline are.
C3_TimeoutWins ==
    [][ main_loop /\ state \in LightStates /\ now - game_start_time >= time_limit
            => state' = "GAME_OVER" /\ game_result' = "LOSE" ]_vars

\* The game timed out in a light phase with the finish line reached and the
\* light deadline not yet passed.
C3_Witness ==
    /\ state = "GAME_OVER"
    /\ game_result = "LOSE"
    /\ elapsed_time >= time_limit
    /\ player_reached_finish_line
    /\ ~player_moved
    /\ previous_detection # NoDetection
    /\ now < light_end_time

\* C4: a detection processed in GREEN_LIGHT whose selected size_y is at or above
\* the finish-line threshold sets the finish-line flag; while the flag is set in
\* GREEN_LIGHT every step that is not a tick keeps the phase and the flag, and
\* the tick, if the elapsed time is below the limit, ends in GAME_OVER with
\* result WIN.
C4_FinishThenWin ==
    [][ /\ \A msg \in Frames :
              LET sel == select_person(msg) IN
              /\ detection_callback(msg)
              /\ state = "GREEN_LIGHT"
              /\ sel.person_detected
              /\ sel.detection.bbox.size_y >= size_y_finish_line
              => player_reached_finish_line'
        /\ state = "GREEN_LIGHT" /\ player_reached_finish_line
              => /\ (main_loop /\ now - game_start_time < time_limit
                        => state' = "GAME_OVER" /\ game_result' = "WIN")
                 /\ (~main_loop
                        => state' = "GREEN_LIGHT" /\ player_reached_finish_line')
      ]_vars

\* The game was won before the time limit on a detection at the finish line.
C4_Witness ==
    /\ state = "GAME_OVER"
    /\ game_result = "WIN"
    /\ elapsed_time < time_limit
    /\ current_detection # NoDetection
    /\ current_detection.bbox.size_y >= size_y_finish_line

\* C5: once movement is flagged in RED_LIGHT, every step that is not a tick keeps
\* the phase and the flag, and the tick ends in GAME_OVER with result LOSE.
C5_MovedThenLose ==
    [][ state = "RED_LIGHT" /\ player_moved
            => /\ (main_loop => state' = "GAME_OVER" /\ game_result' = "LOSE")
               /\ (~main_loop => state' = "RED_LIGHT" /\ player_moved') ]_vars

\* The player was eliminated for moving, before the time limit.
C5_Witness ==
    /\ state = "GAME_OVER"
    /\ game_result = "LOSE"
    /\ player_moved
    /\ elapsed_time < time_limit

\* Some coordinate of the two boxes differs by strictly more than the threshold.
ExceedsThreshold(p, c, threshold) ==
    \E f \in {"x", "y", "size_x", "size_y"} : Abs(c[f] - p[f]) > threshold

\* C6: a person detection processed in RED_LIGHT with a stored previous
\* detection flags movement iff one of the four absolute deltas is strictly above
\* the threshold; a detection processed in another phase leaves player_moved as
\* it was.
C6_MovementIffDelta ==
    [][ \A msg \in WideFrames :
          detection_callback(msg) =>
            LET sel == select_person(msg) IN
            /\ (sel.person_detected /\ state = "RED_LIGHT"
                   /\ previous_detection # NoDetection
                  => (player_moved' <=>
                        \/ player_moved
                        \/ ExceedsThreshold(previous_detection.bbox,
                                            sel.detection.bbox, movement_threshold)))
            /\ (state # "RED_LIGHT" => player_moved' = player_moved) ]_vars

\* Movement was flagged in RED_LIGHT by a delta one above the default threshold.
C6_Witness ==
    /\ state = "RED_LIGHT"
    /\ player_moved
    /\ movement_threshold = movement_threshold_default
    /\ previous_detection # NoDetection

\* C7: every entry into RED_LIGHT leaves previous_detection cleared and
\* player_moved false.
C7_RedEntryClears ==
    [][ RedEntry => previous_detection' = NoDetection /\ ~player_moved' ]_vars

\* RED_LIGHT was just entered from RED_LIGHT after a detection had been stored.
C7_Witness ==
    /\ state = "RED_LIGHT"
    /\ scheduled_from = "RED_LIGHT"
    /\ current_detection # NoDetection
    /\ previous_detection = NoDetection
    /\ ~player_moved

\* C8: a person detection processed in RED_LIGHT that equals the stored previous
\* detection has four zero deltas and leaves player_moved as it was, for every
\* threshold >= 0.
C8_SameDetectionIdempotent ==
    [][ \A msg \in WideFrames :
          LET sel == select_person(msg) IN
          /\ detection_callback(msg)
          /\ state = "RED_LIGHT"
          /\ sel.person_detected
          /\ sel.detection = previous_detection
          => /\ player_moved' = player_moved
             /\ deltas(previous_detection, current_detection')
                  = [delta_x |-> 0, delta_y |-> 0, delta_size_x |-> 0,
                     delta_size_y |-> 0] ]_vars

\* With threshold 0 a detection is stored in RED_LIGHT and no movement is flagged.
C8_Witness ==
    /\ state = "RED_LIGHT"
    /\ movement_threshold = 0
    /\ previous_detection # NoDetection
    /\ ~player_moved

\* C9: game_result is assigned only by a tick that takes the phase into
\* GAME_OVER, and it has been assigned exactly once whenever the phase is
\* GAME_OVER (never before).
C9_ResultWrittenOnce ==
    [][ /\ (result_writes' # result_writes \/ game_result' # game_result
               => /\ main_loop
                  /\ state # "GAME_OVER"
                  /\ state' = "GAME_OVER"
                  /\ result_writes' = result_writes + 1)
        /\ (state' = "GAME_OVER" => result_writes' = 1 /\ game_result' # "UNSET")
        /\ (state' # "GAME_OVER" => result_writes' = 0 /\ game_result' = "UNSET")
      ]_vars

\* The final tick has run and game_result has been assigned once.
C9_Witness == state = "GAME_OVER" /\ ~timer_active /\ result_writes = 1

\* C10 as stated: previous_detection is non-null only in RED_LIGHT, after a
\* person detection since the entry.
C10_Original ==
    previous_detection # NoDetection => state = "RED_LIGHT" /\ seen_since_red

\* C10, amended: previous_detection is non-null only if a person detection has
\* been processed since the latest entry into RED_LIGHT (since construction when
\* there was none), in whatever phase.
C10_PreviousOnlyAfterDetection == previous_detection # NoDetection => seen_since_red

\* previous_detection is stored outside RED_LIGHT.
C10_Witness ==
    /\ state = "GREEN_LIGHT"
    /\ previous_detection # NoDetection
    /\ seen_since_red

\* C11: player_reached_finish_line, once true, stays true in every step;
\* player_moved, once true, becomes false only in a step that enters RED_LIGHT.
C11_StickyFlags ==
    [][ /\ (player_reached_finish_line => player_reached_finish_line')
        /\ (player_moved /\ ~player_moved' => RedEntry) ]_vars

\* The finish-line flag is still set after a later, smaller detection was stored.
C11_Witness ==
    /\ player_reached_finish_line
    /\ current_detection # NoDetection
    /\ current_detection.bbox.size_y < size_y_finish_line

\* C12: every tick in GREEN_LIGHT or RED_LIGHT sets elapsed_time to the clock
\* reading minus game_start_time; elapsed_time never decreases; game_start_time
\* is assigned only by the INIT tick, once, to the clock reading.
C12_ElapsedFromStart ==
    [][ /\ (main_loop /\ state \in LightStates
               => elapsed_time' = now - game_start_time)
        /\ elapsed_time' >= elapsed_time
        /\ (game_start_time' # game_start_time
               => /\ main_loop
                  /\ state = "INIT"
                  /\ game_start_time = None
                  /\ game_start_time' = now) ]_vars

\* A light tick has run after the clock advanced past a non-zero start timestamp.
C12_Witness ==
    /\ state \in LightStates
    /\ game_start_time > 0
    /\ elapsed_time > current_light_duration
    /\ elapsed_time = now - game_start_time

\* C13: GAME_OVER is published only by the tick that runs in GAME_OVER with the
\* timer still active; that tick cancels the timer (and nothing else does), the
\* timer never becomes active again and no tick runs while it is cancelled:
\* GAME_OVER is published once, by the last tick.
C13_PublishedOnceThenStop ==
    [][ /\ (pubs' = <<"GAME_OVER">>
               => state = "GAME_OVER" /\ timer_active /\ ~timer_active')
        /\ (main_loop /\ state = "GAME_OVER" => pubs' = <<"GAME_OVER">>)
        /\ (~timer_active => ~timer_active' /\ ~main_loop)
        /\ (timer_active /\ ~timer_active' => pubs' = <<"GAME_OVER">>)
        /\ (~timer_active' => state' = "GAME_OVER") ]_vars

\* The clock has advanced after the final tick and no tick has run since.
C13_Witness ==
    /\ state = "GAME_OVER"
    /\ ~timer_active
    /\ pubs = <<>>
    /\ now > game_start_time + elapsed_time

\* C14 as stated: every step that changes the phase publishes the new phase name.
C14_Original == [][state' # state => pubs' = <<state'>>]_vars

\* C14, amended: every step that enters GREEN_LIGHT or RED_LIGHT (a change of
\* phase or a new RED_LIGHT after RED_LIGHT) publishes the new phase name; the
\* steps that change the phase to COUNTDOWN, INIT or GAME_OVER publish nothing;
\* GAME_OVER is published by the tick that runs in GAME_OVER.
C14_PublishedOnLightEntry ==
    [][ /\ (state' \in LightStates /\ light_end_time' # light_end_time
               => pubs' = <<state'>>)
        /\ (state' # state /\ state' \notin LightStates => pubs' = <<>>)
        /\ (main_loop /\ state = "GAME_OVER" => pubs' = <<"GAME_OVER">>) ]_vars

\* The phase has just changed to GAME_OVER and nothing was published.
C14_Witness ==
    /\ state = "GAME_OVER"
    /\ timer_active
    /\ pubs = <<>>
    /\ result_writes = 1
    /\ now = game_start_time + elapsed_time

\* The places in the frame of the detections with a person hypothesis.
PersonIndices(msg) ==
    { i \in 1..Len(msg) : \E j \in 1..Len(msg[i].results) : msg[i].results[j] = "15" }

\* The first of the person detections of largest size_y.
LargestPerson(msg) ==
    LET P == PersonIndices(msg)
        best == CHOOSE i \in P :
                    /\ \A k \in P : msg[k].bbox.size_y <= msg[i].bbox.size_y
                    /\ \A k \in P : k < i => msg[k].bbox.size_y < msg[i].bbox.size_y
    IN  msg[best]

\* C15: for every frame with at least one person detection, the detection the
\* callback stores is the first person detection of largest size_y, also when
\* that size_y is zero.
C15_SelectsLargestPerson ==
    [][ \A msg \in SelFrames :
          detection_callback(msg) /\ PersonIndices(msg) # {}
          => current_detection' = LargestPerson(msg) ]_vars

\* C16: a frame that is empty or has no person detection leaves
\* current_detection, previous_detection, both flags, the phase and game_result
\* as they were, in every phase.
C16_NoPersonNoChange ==
    [][ \A msg \in Frames :
          detection_callback(msg) /\ PersonIndices(msg) = {}
          => UNCHANGED <<current_detection, previous_detection, player_moved,
                         player_reached_finish_line, state, game_result>> ]_vars

\* RED_LIGHT was entered one unit after the tick read the clock, and a frame
\* without a person was processed before the clock advanced or a tick ran: the
\* detection stored before the entry is still the current one.
C16_Witness ==
    /\ state = "RED_LIGHT"
    /\ pubs = <<>>
    /\ previous_detection = NoDetection
    /\ current_detection # NoDetection
    /\ now = light_end_time - current_light_duration
    /\ elapsed_time = now - game_start_time - 1

\* C17: the first person detection processed after an entry into RED_LIGHT
\* leaves player_moved false; in every state in which a callback can run with
\* the phase RED_LIGHT and no person detection since the entry,
\* previous_detection is cleared and player_moved is false.
C17_FirstDetectionNeverFlags ==
    [][ /\ \A msg \in Frames :
              detection_callback(msg) /\ state = "RED_LIGHT" /\ ~seen_since_red
              => ~player_moved'
        /\ (state' = "RED_LIGHT" /\ ~seen_since_red'
               => previous_detection' = NoDetection /\ ~player_moved') ]_vars

\* In RED_LIGHT a detection far from the one at the finish line, which was
\* processed before the entry, is stored and no movement is flagged.
C17_Witness ==
    /\ state = "RED_LIGHT"
    /\ seen_since_red
    /\ ~player_moved
    /\ player_reached_finish_line
    /\ previous_detection # NoDetection
    /\ previous_detection.bbox.size_y < size_y_finish_line

\* C18: every entry into GREEN_LIGHT or RED_LIGHT draws a duration within
\* [random_interval_min, random_interval_max] and sets the light deadline to the
\* clock reading at the entry plus that duration; a tick calls the scheduler
\* from a light phase only when the clock reading at the tick is at or past the
\* deadline, that is, not before the drawn duration has passed since the entry.
C18_DeadlineFromEntry ==
    [][ /\ (light_end_time' # light_end_time
               => /\ main_loop
                  /\ state' \in LightStates
                  /\ current_light_duration' \in random_interval_min..random_interval_max
                  /\ light_end_time' = now' + current_light_duration')
        /\ (current_light_duration' # current_light_duration
               => light_end_time' # light_end_time)
        /\ (state \in LightStates /\ light_end_time' # light_end_time
               => now >= light_end_time) ]_vars

\* GREEN_LIGHT was just entered from RED_LIGHT with the longest duration.
C18_Witness ==
    /\ state = "GREEN_LIGHT"
    /\ scheduled_from = "RED_LIGHT"
    /\ current_light_duration = random_interval_max
    /\ light_end_time = now + current_light_duration

\* C19: with the timer firing and the clock advancing, every execution
\* eventually reaches GAME_OVER, whatever the detections and the light choices;
\* the time-limit check is what ends it: no light phase outlives a tick at which
\* the elapsed time is at or above the time limit.
C19_EventuallyGameOver ==
    /\ <>(state = "GAME_OVER")
    /\ [](state \in LightStates => elapsed_time < time_limit)

\* The game ended by the time limit in RED_LIGHT with no movement flagged.
C19_Witness ==
    /\ state = "GAME_OVER"
    /\ game_result = "LOSE"
    /\ ~player_moved
    /\ ~player_reached_finish_line
    /\ elapsed_time >= time_limit
    /\ previous_detection = NoDetection

\* C20: the result WIN is written only by a tick in GREEN_LIGHT at which the
\* finish-line flag is set and the elapsed time is below the time limit; a tick
\* in RED_LIGHT never writes WIN; with the flag set, a detection keeps the phase
\* and the result, a tick before the first light phase does not end the game,
\* and a tick in RED_LIGHT below the time limit with no movement flagged stays
\* in a light phase.
C20_WinOnlyOnGreenTick ==
    [][ /\ (result_writes' # result_writes /\ game_result' = "WIN"
                => /\ main_loop
                   /\ state = "GREEN_LIGHT"
                   /\ player_reached_finish_line
                   /\ now - game_start_time < time_limit)
        /\ (game_result' = "WIN" => game_result = "WIN" \/ state = "GREEN_LIGHT")
        /\ (main_loop /\ state = "RED_LIGHT" => game_result' # "WIN")
        /\ \A msg \in Frames :
              detection_callback(msg) /\ player_reached_finish_line'
                  => state' = state /\ game_result' = game_result
        /\ (main_loop /\ player_reached_finish_line
              /\ state \in {"INSTRUCTIONS", "COUNTDOWN", "INIT"}
                  => state' # "GAME_OVER" /\ game_result' = game_result)
        /\ (main_loop /\ player_reached_finish_line /\ state = "RED_LIGHT"
              /\ ~player_moved /\ now - game_start_time < time_limit
                  => state' \in LightStates /\ game_result' = game_result)
      ]_vars

\* The game was lost for moving in RED_LIGHT, before the time limit, with the
\* finish-line flag already set.
C20_Witness ==
    /\ state = "GAME_OVER"
    /\ game_result = "LOSE"
    /\ player_reached_finish_line
    /\ player_moved
    /\ elapsed_time < time_limit
    /\ result_writes = 1

====
